---- MODULE Spec2Model ----
(***************************************************************************)
(* static-subid: deterministic subordinate UID/GID range assignment.       *)
(*                                                                         *)
(* The module holds four specifications over one set of variables:         *)
(*   SpecRange   calc_subid_range (range.c) applied to drawn inputs        *)
(*   SpecConfig  the per-file security gate and parser of config.c, run    *)
(*               against a file system an adversary re-points              *)
(*   Spec        the workflow of main.c (main, process_mode)               *)
(*   SpecInvoker check_subid_exists and set_subid_range (subid.c) called   *)
(*               under drawn environments and child outcomes               *)
(*                                                                         *)
(* uint32_t is modelled as an unsigned word of WordBits bits, uint64_t as  *)
(* a word of twice that width, so that every overflow case of the 32-bit   *)
(* arithmetic has a counterpart TLC can enumerate.                         *)
(***************************************************************************)
EXTENDS Integers, Sequences, FiniteSets, TLC

\* -------------------------------------------------------------------------
\* Bounds
\* -------------------------------------------------------------------------

\* Width of the modelled uint32_t word.
WordBits == 3


\* -------------------------------------------------------------------------
\* Fixed-width integers
\* -------------------------------------------------------------------------

\* static-subid.h: #define UINT32_MAX_VAL 4294967295U (2^32 - 1), here 2^WordBits - 1.
UINT32_MAX_VAL == 2^WordBits - 1

\* Number of values of a uint32_t.
UINT32_MOD == UINT32_MAX_VAL + 1

\* The values of a uint32_t.
Uint32 == 0..UINT32_MAX_VAL

\* Conversion of an integer to uint32_t: reduction modulo 2^width.
ToUint32(x) == ((x % UINT32_MOD) + UINT32_MOD) % UINT32_MOD

\* Conversion to uint64_t (twice the width of uint32_t).
ToUint64(x) == x % (UINT32_MOD * UINT32_MOD)

\* Mutant of mul_overflow: the multiplication is never reported to overflow.
mul_overflow_unchecked(a, b) == FALSE

\* __builtin_mul_overflow(a, b, &res) on uint32_t: TRUE iff a * b does not fit.
mul_overflow(a, b) == a * b > UINT32_MAX_VAL

\* Mutant of add_overflow: the addition is never reported to overflow.
add_overflow_unchecked(a, b) == FALSE

\* __builtin_add_overflow(a, b, &res) on uint32_t: TRUE iff a + b does not fit.
add_overflow(a, b) == a + b > UINT32_MAX_VAL

\* -------------------------------------------------------------------------
\* range.c: calc_subid_range
\* -------------------------------------------------------------------------

\* Result of a failed call: -1, with *start_out left at the sentinel.
RangeFail == [rc |-> -1, start_out |-> UINT32_MAX_VAL]

\* Result of a successful call.
RangeOk(start_id) == [rc |-> 0, start_out |-> start_id]

\* uint32_t space = max_val - min_val + 1, computed in uint32_t.
Space(min_val, max_val) == ToUint32(max_val - min_val + 1)

\* Mutant of StrictRange: the offset is added without multiplying by count.
StrictRangeNoMul(uid_offset, min_val, max_val, count) ==
  IF add_overflow(min_val, uid_offset) THEN RangeFail
  ELSE LET start_id == ToUint32(min_val + uid_offset) IN
    IF add_overflow(start_id, count - 1) THEN RangeFail
    ELSE IF ToUint32(start_id + (count - 1)) > max_val THEN RangeFail
    ELSE RangeOk(start_id)

\* Mutant of StrictRange: the computed start is stored before the end is checked.
StrictRangeLeaksStart(uid_offset, min_val, max_val, count) ==
  IF mul_overflow(uid_offset, count) THEN RangeFail
  ELSE LET product == ToUint32(uid_offset * count) IN
    IF add_overflow(min_val, product) THEN RangeFail
    ELSE LET start_id == ToUint32(min_val + product) IN
      IF add_overflow(start_id, count - 1) THEN [rc |-> -1, start_out |-> start_id]
      ELSE LET end_id == ToUint32(start_id + (count - 1)) IN
        IF end_id > max_val THEN [rc |-> -1, start_out |-> start_id]
        ELSE RangeOk(start_id)

\* Strict mode: every step overflow-checked, the block must end at or below max_val.
StrictRange(uid_offset, min_val, max_val, count) ==
  IF mul_overflow(uid_offset, count) THEN RangeFail
  ELSE LET product == ToUint32(uid_offset * count) IN
    IF add_overflow(min_val, product) THEN RangeFail
    ELSE LET start_id == ToUint32(min_val + product) IN
      IF add_overflow(start_id, count - 1) THEN RangeFail
      ELSE LET end_id == ToUint32(start_id + (count - 1)) IN
        IF end_id > max_val THEN RangeFail
        ELSE RangeOk(start_id)

\* Wrap mode: 64-bit logical offset reduced modulo space, added in uint32_t.
WrapRange(uid_offset, min_val, space, count) ==
  LET logical_offset == ToUint64(uid_offset * count) IN
  RangeOk(ToUint32(min_val + ToUint32(logical_offset % space)))

\* calc_subid_range(uid, uid_min, subid_cfg, allow_wrap, &start_out), non-NULL arguments.
calc_subid_range(uid, uid_min, subid_cfg, allow_wrap) ==
  IF uid < uid_min THEN RangeFail
  ELSE LET count == subid_cfg.count_val IN
    IF count = 0 THEN RangeFail
    ELSE LET min_val    == subid_cfg.min_val
             max_val    == subid_cfg.max_val
             uid_offset == ToUint32(uid - uid_min)
             space      == Space(min_val, max_val)
         IN
      IF count > space THEN RangeFail
      ELSE IF ~allow_wrap THEN StrictRange(uid_offset, min_val, max_val, count)
      ELSE WrapRange(uid_offset, min_val, space, count)

\* -------------------------------------------------------------------------
\* Configuration text
\*
\* A file's content is a sequence of symbols.  A symbol is one character
\* (blank, tab, newline, '#', a digit, a sign, a letter) or one whole word of
\* characters that are neither white space nor '#' (a key name, a boolean
\* word), which the code only ever compares as a whole with strcmp/strcasecmp.
\* -------------------------------------------------------------------------

\* White space, as isspace() sees the symbols used.
SpaceSymbols == {" ", "\t", "\n"}

\* isspace(c).
IsSpace(c) == c \in SpaceSymbols

\* isdigit(c).
IsDigit(c) == c \in {"0", "1", "2", "3", "4", "5", "6", "7", "8", "9"}

\* Value of a decimal digit.
DigitVal(c) ==
  CASE c = "0" -> 0 [] c = "1" -> 1 [] c = "2" -> 2 [] c = "3" -> 3 [] c = "4" -> 4
    [] c = "5" -> 5 [] c = "6" -> 6 [] c = "7" -> 7 [] c = "8" -> 8 [] c = "9" -> 9

\* static-subid.h: #define MAX_LINE_LEN 1024
MAX_LINE_LEN == 1024

\* Build limit on count values (autoconf.h), 0 < MAX_RANGES <= 2^26 < UINT32_MAX_VAL;
\* here a value below the maximum of the modelled word.
MAX_RANGES == 4

\* Index of the first element of s at or after i that is in set, Len(s) + 1 if none
\* (strchr, and the scanning loops of the parser).
FirstIn(s, i, set) ==
  LET hits == {k \in i..Len(s) : s[k] \in set} IN
  IF hits = {} THEN Len(s) + 1 ELSE CHOOSE k \in hits : \A j \in hits : k <= j

\* Index of the first element of s at or after i that is not in set, Len(s) + 1 if none.
FirstNotIn(s, i, set) ==
  LET hits == {k \in i..Len(s) : s[k] \notin set} IN
  IF hits = {} THEN Len(s) + 1 ELSE CHOOSE k \in hits : \A j \in hits : k <= j

\* Length of s with its trailing white space removed.
RECURSIVE TrimmedLen(_, _)
TrimmedLen(s, n) ==
  IF n > 0 /\ IsSpace(s[n]) THEN TrimmedLen(s, n - 1) ELSE n

\* util.c normalize_config_line: cut at the first '#', trim trailing then leading
\* white space.
normalize_config_line(line) ==
  LET cut      == SubSeq(line, 1, FirstIn(line, 1, {"#"}) - 1)
      trimmed  == SubSeq(cut, 1, TrimmedLen(cut, Len(cut)))
      start    == FirstNotIn(trimmed, 1, SpaceSymbols)
  IN SubSeq(trimmed, start, Len(trimmed))

\* fgets(line, MAX_LINE_LEN, fp) at offset pos of content: the symbols up to and
\* including the next newline, at most MAX_LINE_LEN - 1 of them; <<>> is NULL (EOF).
fgets(content, pos) ==
  LET nl   == FirstIn(content, pos, {"\n"})
      last == IF nl - pos + 1 <= MAX_LINE_LEN - 1 THEN nl ELSE pos + MAX_LINE_LEN - 2
  IN SubSeq(content, pos, IF last > Len(content) THEN Len(content) ELSE last)

\* strtoull on a string of digits.
RECURSIVE DecimalValue(_, _)
DecimalValue(str, acc) ==
  IF str = <<>> THEN acc ELSE DecimalValue(Tail(str), acc * 10 + DigitVal(Head(str)))

\* The string with its leading zeros skipped, except a lone "0".
RECURSIVE SkipLeadingZeros(_)
SkipLeadingZeros(str) ==
  IF Len(str) > 1 /\ Head(str) = "0" THEN SkipLeadingZeros(Tail(str)) ELSE str

\* Mutant of parse_uint32_strict: a string that is no number is taken as 0 (atoi).
parse_uint32_lenient(str) ==
  IF str # <<>> /\ \A i \in 1..Len(str) : IsDigit(str[i])
  THEN [ok |-> TRUE, val |-> DecimalValue(str, 0) % (UINT32_MAX_VAL + 1)]
  ELSE [ok |-> TRUE, val |-> 0]

\* validate.c parse_uint32_strict: [ok, val]; ok is FALSE where the code returns -1.
parse_uint32_strict(str) ==
  IF str = <<>> THEN [ok |-> FALSE, val |-> 0]
  ELSE IF Head(str) = "-" \/ Head(str) = "+" \/ IsSpace(Head(str)) THEN [ok |-> FALSE, val |-> 0]
  ELSE LET digits == SkipLeadingZeros(str) IN
    IF \E i \in 1..Len(digits) : ~IsDigit(digits[i]) THEN [ok |-> FALSE, val |-> 0]
    ELSE LET val == DecimalValue(digits, 0) IN
      IF val > UINT32_MAX_VAL THEN [ok |-> FALSE, val |-> 0]
      ELSE [ok |-> TRUE, val |-> val]

\* strcasecmp(str, word) = 0 for the boolean words: the spellings of each word.
Spellings(word) ==
  CASE word = "yes"   -> {"yes", "YES", "Yes"}
    [] word = "true"  -> {"true", "TRUE", "True"}
    [] word = "no"    -> {"no", "NO", "No"}
    [] word = "false" -> {"false", "FALSE", "False"}

\* validate.c parse_bool(str, default_val).
parse_bool(str, default_val) ==
  IF Len(str) # 1 THEN default_val
  ELSE IF str[1] \in Spellings("yes") THEN TRUE
  ELSE IF str[1] \in Spellings("true") THEN TRUE
  ELSE IF str[1] = "1" THEN TRUE
  ELSE IF str[1] \in Spellings("no") THEN FALSE
  ELSE IF str[1] \in Spellings("false") THEN FALSE
  ELSE IF str[1] = "0" THEN FALSE
  ELSE default_val

\* -------------------------------------------------------------------------
\* config.c: config_factory, apply_config_value, line parsing
\* -------------------------------------------------------------------------

\* config.c config_factory: the hardcoded defaults.
config_factory ==
  [ uid_min |-> 1000, uid_max |-> 60000,
    subuid |-> [min_val |-> 100000, max_val |-> 600100000, count_val |-> 65536],
    subgid |-> [min_val |-> 100000, max_val |-> 600100000, count_val |-> 65536],
    skip_if_exists |-> TRUE, allow_subid_wrap |-> FALSE ]

\* config.c apply_config_value(key, value, config, filepath): the updated record.
apply_config_value(key, value, config) ==
  LET n == parse_uint32_strict(value) IN
  CASE key = <<"UID_MIN">> ->
         IF n.ok THEN [config EXCEPT !.uid_min = n.val] ELSE config
    [] key = <<"UID_MAX">> ->
         IF n.ok THEN [config EXCEPT !.uid_max = n.val] ELSE config
    [] key = <<"SUB_UID_MIN">> ->
         IF n.ok THEN [config EXCEPT !.subuid.min_val = n.val] ELSE config
    [] key = <<"SUB_UID_MAX">> ->
         IF n.ok THEN [config EXCEPT !.subuid.max_val = n.val] ELSE config
    [] key = <<"SUB_UID_COUNT">> ->
         IF n.ok /\ n.val <= MAX_RANGES THEN [config EXCEPT !.subuid.count_val = n.val]
         ELSE config
    [] key = <<"SUB_GID_MIN">> ->
         IF n.ok THEN [config EXCEPT !.subgid.min_val = n.val] ELSE config
    [] key = <<"SUB_GID_MAX">> ->
         IF n.ok THEN [config EXCEPT !.subgid.max_val = n.val] ELSE config
    [] key = <<"SUB_GID_COUNT">> ->
         IF n.ok /\ n.val <= MAX_RANGES THEN [config EXCEPT !.subgid.count_val = n.val]
         ELSE config
    [] key = <<"SKIP_IF_EXISTS">> ->
         [config EXCEPT !.skip_if_exists = parse_bool(value, config.skip_if_exists)]
    [] key = <<"ALLOW_SUBID_WRAP">> ->
         [config EXCEPT !.allow_subid_wrap = parse_bool(value, config.allow_subid_wrap)]
    [] OTHER -> config

\* config.c parse_config_file, the body of the fgets loop for one line: normalize,
\* skip blank lines and keys without value, split at the first run of white space,
\* apply.
ParseLine(line, config) ==
  LET clean == normalize_config_line(line) IN
  IF clean = <<>> THEN config
  ELSE LET sp == FirstIn(clean, 1, SpaceSymbols) IN
    IF sp > Len(clean) THEN config
    ELSE LET key   == SubSeq(clean, 1, sp - 1)
             vs    == FirstNotIn(clean, sp + 1, SpaceSymbols)
             value == SubSeq(clean, vs, Len(clean))
         IN IF value = <<>> THEN config ELSE apply_config_value(key, value, config)

\* -------------------------------------------------------------------------
\* validate.c and subid.c: the checks and the spawned commands
\* -------------------------------------------------------------------------

\* Mutant of validate_uid_range: every identifier is accepted.
validate_uid_range_unchecked(uid, cfg) == 0

\* validate.c validate_uid_range: 0 iff uid_min <= uid <= uid_max.
validate_uid_range(uid, cfg) ==
  IF uid < cfg.uid_min THEN -1
  ELSE IF uid > cfg.uid_max THEN -1
  ELSE 0

\* validate.c validate_uid_subid_overlap: -1 iff min_val <= uid <= max_val.
validate_uid_subid_overlap(uid, subid_cfg) ==
  IF uid >= subid_cfg.min_val /\ uid <= subid_cfg.max_val THEN -1 ELSE 0

\* How the spawn of a command and the wait for it can end: a failure of the
\* file-action setup, of the environment allocation, of posix_spawn or of waitpid,
\* death by signal, a status that is neither exit nor signal, or an exit code.
Outcomes ==
  { "init_failed", "addopen_failed", "calloc_failed", "spawn_failed", "wait_failed",
    "signaled", "stopped", "exit0", "exit1", "exit2" }

\* posix_spawn returned 0: the command runs.
SpawnSucceeded(outcome) ==
  outcome \notin {"init_failed", "addopen_failed", "calloc_failed", "spawn_failed"}

\* subid.c build_safe_environ: the allow-list, in its order.
allowed == << <<"LANG">>, <<"LC_ALL">>, <<"LC_MESSAGES">>, <<"LC_CTYPE">>, <<"TZ">> >>

\* subid.c build_safe_environ: strncmp(*ep, allowed[i], klen) == 0 && (*ep)[klen] == '='.
EntryMatches(ep, name) ==
  /\ Len(ep) > Len(name)
  /\ SubSeq(ep, 1, Len(name)) = name
  /\ ep[Len(name) + 1] = "="

\* getenv(name) != NULL.
getenv(environ, name) == \E i \in 1..Len(environ) : EntryMatches(environ[i], name)

\* The first entry of environ for name (the inner loop with its break).
FirstEntry(environ, name) ==
  environ[CHOOSE i \in 1..Len(environ) :
            /\ EntryMatches(environ[i], name)
            /\ \A j \in 1..(i - 1) : ~EntryMatches(environ[j], name)]

\* Mutant of build_safe_environ: the caller's environment is handed on.
InheritEnviron(environ) == environ

\* The entries build_safe_environ collects for allowed[i..].
RECURSIVE SafeFrom(_, _)
SafeFrom(environ, i) ==
  IF i > Len(allowed) THEN <<>>
  ELSE IF getenv(environ, allowed[i])
  THEN <<FirstEntry(environ, allowed[i])>> \o SafeFrom(environ, i + 1)
  ELSE SafeFrom(environ, i + 1)

\* subid.c build_safe_environ: for each allow-listed name that is set, in the
\* order of the allow-list, its entry of environ.
build_safe_environ(environ) == SafeFrom(environ, 1)

\* The library calls made for one spawn with the given number of redirections,
\* up to the point the outcome allows.
SpawnCalls(redirects, outcome) ==
  LET init    == <<"posix_spawn_file_actions_init">>
      addopen == [i \in 1..redirects |-> "posix_spawn_file_actions_addopen"]
      destroy == <<"posix_spawn_file_actions_destroy">>
  IN CASE outcome = "init_failed"    -> init
       [] outcome = "addopen_failed" -> init \o <<"posix_spawn_file_actions_addopen">> \o destroy
       [] outcome = "calloc_failed"  -> init \o addopen \o <<"build_safe_environ">> \o destroy
       [] outcome = "spawn_failed"   -> init \o addopen \o <<"build_safe_environ", "posix_spawn">> \o destroy
       [] OTHER -> init \o addopen \o <<"build_safe_environ", "posix_spawn">> \o destroy \o <<"waitpid">>

\* posix_spawn_file_actions_addopen(&actions, fd, "/dev/null", oflag, 0).
Redirect(fd, oflag) == [fd |-> fd, path |-> "/dev/null", oflag |-> oflag]

\* Mutant of ExistsActions: stdout and stderr are redirected with debug too.
ExistsActionsAlwaysQuiet(debug) ==
  << Redirect("STDIN_FILENO", "O_RDONLY"), Redirect("STDOUT_FILENO", "O_WRONLY"),
     Redirect("STDERR_FILENO", "O_WRONLY") >>

\* subid.c check_subid_exists: stdin from /dev/null, and without debug stdout and
\* stderr to /dev/null.
ExistsActions(debug) ==
  <<Redirect("STDIN_FILENO", "O_RDONLY")>> \o
  (IF ~debug THEN << Redirect("STDOUT_FILENO", "O_WRONLY"), Redirect("STDERR_FILENO", "O_WRONLY") >>
             ELSE <<>>)

\* subid.c set_subid_range: stdin from /dev/null, stdout and stderr kept.
MutationActions == <<Redirect("STDIN_FILENO", "O_RDONLY")>>

\* A spawned command, as recorded: the program, the mode it serves, its argument
\* vector, the range argument (none for getsubids), its environment, its file
\* actions, and the variable posix_spawn stored the child's pid in.
Command(cmd, mode, argv, range, env, actions) ==
  [cmd |-> cmd, mode |-> mode, argv |-> argv, range |-> range, env |-> env,
   actions |-> actions, pid |-> "pid"]

\* Mutant of Waits: the function returns without waiting when the spawn succeeded.
WaitsNever(spawned, outcome) == <<>>

\* subid.c: ops->waitpid(pid, &status, 0) after posix_spawn returned 0, once, for
\* the pid posix_spawn stored; the targets of the waits made.
Waits(spawned, outcome) ==
  IF SpawnSucceeded(outcome) THEN [k \in 1..Len(spawned) |-> spawned[k].pid] ELSE <<>>

\* What a call of the invoker did: return value, library calls, commands spawned,
\* wait targets, lines printed on stdout.
Report(rc, calls, spawned, waited, printed) ==
  [rc |-> rc, calls |-> calls, spawned |-> spawned, waited |-> waited, printed |-> printed]

\* Mutant of ExistsStatus: every exit code but 0 means absent.
ExistsStatusLenient(outcome) ==
  IF outcome = "exit0" THEN 1 ELSE IF outcome \in {"exit1", "exit2"} THEN 0 ELSE -1

\* subid.c check_subid_exists, the status of the waited child: exit 0 gives 1
\* (exist), exit 1 gives 0 (absent), everything else -1.
ExistsStatus(outcome) ==
  IF outcome \in {"signaled", "stopped"} THEN -1
  ELSE IF outcome = "exit0" THEN 1
  ELSE IF outcome = "exit1" THEN 0
  ELSE -1

\* subid.c check_subid_exists: getsubids [-g] username is spawned with stdin (and,
\* without debug, stdout and stderr) redirected and the sanitized environment.
check_subid_exists(mode, debug, environ, outcome) ==
  LET argv  == IF mode = "subgid" THEN <<"getsubids", "-g", "username">>
                                 ELSE <<"getsubids", "username">>
      actions == ExistsActions(debug)
      calls   == SpawnCalls(Len(actions), outcome)
      child   == <<Command("getsubids", mode, argv, <<>>, build_safe_environ(environ), actions)>>
  IN IF ~SpawnSucceeded(outcome) THEN Report(-1, calls, <<>>, <<>>, <<>>)
     ELSE IF outcome = "wait_failed" THEN Report(-1, calls, child, Waits(child, outcome), <<>>)
     ELSE Report(ExistsStatus(outcome), calls, child, Waits(child, outcome), <<>>)

\* static-subid.h: RANGE_STR_MAX, (UINT32_DECIMAL_MAX_LEN * 2) + 2.
RANGE_STR_MAX == 22

\* The decimal digit of d.
DigitChar(d) == <<"0", "1", "2", "3", "4", "5", "6", "7", "8", "9">>[d + 1]

\* printf("%u", n): the decimal digits of n, most significant first.
RECURSIVE ToDecimal(_)
ToDecimal(n) ==
  IF n < 10 THEN <<DigitChar(n)>> ELSE ToDecimal(n \div 10) \o <<DigitChar(n % 10)>>

\* Mutant of EndOverflows: the end is not checked.
EndOverflowsUnchecked(start, count) == FALSE

\* subid.c set_subid_range: (uint64_t)start + (uint64_t)count - 1 > UINT32_MAX.
EndOverflows(start, count) == ToUint64(ToUint64(start) + ToUint64(count) - 1) > UINT32_MAX_VAL

\* Mutant of MutationStatus: death by signal counts as success.
MutationStatusSignalOk(outcome) == IF outcome \in {"exit0", "signaled"} THEN 0 ELSE -1

\* subid.c set_subid_range, the status of the waited child: only a normal exit
\* with code 0 is success.
MutationStatus(outcome) ==
  IF outcome = "signaled" THEN -1
  ELSE IF outcome = "stopped" THEN -1
  ELSE IF outcome = "exit0" THEN 0
  ELSE -1

\* Mutant of DryRun: the noop flag is ignored.
DryRunIgnored(noop) == FALSE

\* subid.c set_subid_range: if (noop).
DryRun(noop) == noop

\* subid.c set_subid_range: count and start + count - 1 are checked at 64 bits,
\* the range is formatted as "start-end", noop prints the command and returns 0,
\* otherwise usermod is spawned with stdin redirected and the sanitized
\* environment, and only exit code 0 is success.
set_subid_range(mode, start, count, noop, environ, outcome) ==
  IF count = 0 THEN Report(-1, <<>>, <<>>, <<>>, <<>>)
  ELSE IF EndOverflows(start, count) THEN Report(-1, <<>>, <<>>, <<>>, <<>>)
  ELSE
    LET end_id    == ToUint32(start + count - 1)
        range_str == ToDecimal(start) \o <<"-">> \o ToDecimal(end_id)
        flag      == IF mode = "subuid" THEN "--add-subuids" ELSE "--add-subgids"
        argv      == <<"usermod", flag, range_str, "username">>
        calls     == SpawnCalls(Len(MutationActions), outcome)
        child     == <<Command("usermod", mode, argv, range_str, build_safe_environ(environ),
                               MutationActions)>>
    IN IF Len(range_str) >= RANGE_STR_MAX THEN Report(-1, <<>>, <<>>, <<>>, <<>>)
       ELSE IF DryRun(noop)
       THEN Report(0, <<>>, <<>>, <<>>, << <<"USERMOD_PATH", flag, range_str, "username">> >>)
       ELSE IF ~SpawnSucceeded(outcome) THEN Report(-1, calls, <<>>, <<>>, <<>>)
       ELSE Report(IF outcome = "wait_failed" THEN -1 ELSE MutationStatus(outcome), calls,
                   child, Waits(child, outcome), <<>>)

\* -------------------------------------------------------------------------
\* File objects and the security gates
\* -------------------------------------------------------------------------

\* Result of resolving a path that names nothing.
ENOENT == [type |-> "ENOENT", st_uid |-> 0, woth |-> FALSE, ino |-> 0]

\* No open descriptor.
NoFd == [type |-> "NoFd", st_uid |-> 0, woth |-> FALSE, ino |-> 0]

\* Contents of the regular files and FIFOs used, by inode number. Content 4 is one
\* line: a '#', MAX_LINE_LEN - 2 further characters of comment, then "UID_MAX 1".
FileContent(ino) ==
  IF ino = 1
  THEN << "UID_MIN", " ", "2", "\n",
          "#", " ", "UID_MAX", " ", "1", "\n",
          "SUB_UID_COUNT", "\t", "3", " ", "#", "x", "\n" >>
  ELSE IF ino = 2
  THEN << "UID_MIN", " ", "4", "\n",
          "UID_MIN", " ", "5", "\n",
          "SKIP_IF_EXISTS", " ", "no", "\n" >>
  ELSE IF ino = 3
  THEN << "UID_MIN", " ", "-", "3", "\n",
          "SUB_UID_COUNT", " ", "5", "\n",
          "SKIP_IF_EXISTS", " ", "maybe", "\n",
          "UID_MAX", " ", "1", "6", "\n",
          "SUB_UID_COUNT", " ", "0", "\n",
          "UID_MAX", " ", "6", "\n" >>
  ELSE <<"#">> \o [k \in 1..(MAX_LINE_LEN - 2) |-> "x"] \o <<"UID_MAX", " ", "1", "\n">>

\* Names listed by the directories used, by inode number.
DirEntries(ino) ==
  IF ino = 1
  THEN { <<"a", ".", "c", "o", "n", "f">> }
  ELSE { <<"b", ".", "c", "o", "n", "f">>, <<"a", ".", "c", "o", "n", "f">>,
         <<".", "h", ".", "c", "o", "n", "f">>, <<"a", ".", "t", "x", "t">> }

\* The objects a path may name: what fstat/stat report of them (type, owner,
\* other-write bit) and the inode number, which selects content or entries.
\* Regular files carry each of the contents (the one with the over-long line only
\* in a file that passes the gate), FIFOs one of them, directories each of the
\* listings.
FileObjects ==
  { o \in [type : {"REG", "FIFO", "DIR"}, st_uid : {0, 1000}, woth : BOOLEAN, ino : {1, 2, 3, 4}] :
      /\ o.type = "FIFO" => o.ino = 2
      /\ o.type = "DIR" => o.ino \in {1, 2}
      /\ o.ino = 4 => (o.type = "REG" /\ o.st_uid = 0 /\ ~o.woth) }

\* What resolving a path can yield at any instant.
Targets == FileObjects \cup {ENOENT}

\* What read() delivers from an object: nothing from a directory (EISDIR).
ReadableContent(obj) == IF obj.type = "DIR" THEN <<>> ELSE FileContent(obj.ino)

\* Mutant of SecurityGate: the ownership test is missing.
SecurityGateNoOwner(st) == st.type = "REG" /\ ~st.woth

\* config.c safe_open_config, the tests on the fstat result: regular file, owned
\* by uid 0, not writable by others.
SecurityGate(st) == st.type = "REG" /\ st.st_uid = 0 /\ ~st.woth

\* Mutant of FstatObject: the path is examined again (stat) instead of the handle.
StatByPath(fd, names) == names

\* config.c safe_open_config: ops->fstat(fd, &st) examines the object the open
\* descriptor refers to, whatever the path names by now.
FstatObject(fd, names) == fd

\* config.c parse_config_file: ops->fgets(line, sizeof(line), fp) reads the object
\* behind the descriptor that fdopen wrapped.
ReadObject(fd, names) == fd

\* Mutant of DirGate: the other-write test is missing.
DirGateNoWoth(st) == st.type = "DIR" /\ st.st_uid = 0

\* validate.c validate_config_dir, the tests on the stat result: a directory owned
\* by uid 0 and not writable by others.
DirGate(st) == st.type = "DIR" /\ st.st_uid = 0 /\ ~st.woth

\* Byte order of the characters used in file names (strcoll in the C locale).
Rank(c) ==
  CASE c = "." -> 46 [] c = "/" -> 47 [] c = "a" -> 97 [] c = "b" -> 98 [] c = "c" -> 99
    [] c = "f" -> 102 [] c = "h" -> 104 [] c = "n" -> 110 [] c = "o" -> 111
    [] c = "t" -> 116 [] c = "x" -> 120

\* strcmp(a, b) < 0.
RECURSIVE NameLess(_, _)
NameLess(a, b) ==
  IF b = <<>> THEN FALSE
  ELSE IF a = <<>> THEN TRUE
  ELSE IF Head(a) = Head(b) THEN NameLess(Tail(a), Tail(b))
  ELSE Rank(Head(a)) < Rank(Head(b))

\* alphasort: the names of a set in ascending order.
RECURSIVE SortNames(_)
SortNames(set) ==
  IF set = {} THEN <<>>
  ELSE LET least == CHOOSE n \in set : \A m \in set \ {n} : NameLess(n, m)
       IN <<least>> \o SortNames(set \ {least})

\* util.c filter_conf_files: no dotfile, no '/', longer than ".conf" and ending in it.
filter_conf_files(name) ==
  /\ name # <<>>
  /\ name[1] # "."
  /\ \A i \in 1..Len(name) : name[i] # "/"
  /\ Len(name) > 5
  /\ SubSeq(name, Len(name) - 4, Len(name)) = <<".", "c", "o", "n", "f">>

\* config.c load_config_from_dir, the per-entry defence: no '/' in the name and no
\* leading "..".
EntryAccepted(name) ==
  /\ \A i \in 1..Len(name) : name[i] # "/"
  /\ ~(Len(name) >= 2 /\ name[1] = "." /\ name[2] = ".")

\* Mutant of scandir: the names in descending order.
ScandirDescending(dir) ==
  LET up == SortNames({n \in DirEntries(dir.ino) : filter_conf_files(n)})
  IN [i \in 1..Len(up) |-> up[Len(up) + 1 - i]]

\* scandir(dirpath, &namelist, filter_conf_files, alphasort) on a directory object.
scandir(dir) == SortNames({n \in DirEntries(dir.ino) : filter_conf_files(n)})

\* -------------------------------------------------------------------------
\* State
\* -------------------------------------------------------------------------

VARIABLES
  r_uid_min,   \* SpecRange: uid_min argument, fixed for the run
  r_cfg,       \* SpecRange: subid_cfg argument {min_val, max_val, count_val}
  r_wrap,      \* SpecRange: allow_wrap argument
  r_calls,     \* SpecRange: the calls made so far, each [uid, rc, start_out]
  config,      \* SpecConfig: the config_t record being loaded
  pc,          \* SpecConfig: position of load_configuration
  src,         \* SpecConfig: the source being processed
  namelist,    \* SpecConfig: drop-in names still to be processed, sorted
  fd,          \* SpecConfig: the object behind the open descriptor, or NoFd
  names,       \* SpecConfig: what the path being processed names right now
  pos,         \* SpecConfig: read position in the open stream
  load_rc,     \* SpecConfig: return value of load_configuration, once returned
  h_before,    \* history: config when the current source was attempted
  h_trace,     \* history: system calls made for the current source, with their object
  h_parsed,    \* history: lines handed to the parser for the current source, with their object
  h_attempted, \* history: the sources attempted by this load, in order, each [src, name]
  h_read,      \* history: the files whose stream was read by this load, in order, each [src, name, ino]
  w_pc,        \* Spec: position of main
  w_opts,      \* Spec: options_t {do_subuid, do_subgid, noop}
  w_uid,       \* Spec: the uid resolve_user stored
  w_mode,      \* Spec: the mode process_mode is running for
  w_start,     \* Spec: start written by calc_subid_range in process_mode
  w_exit,      \* Spec: exit status of the run, once exited
  w_log,       \* history: the steps of the run, each [step, mode, rc]
  w_spawned,   \* history: the commands spawned by the run, each [cmd, mode, range]
  w_run,       \* Spec: 1 for the first run, 2 for the run repeated after it
  w_prev,      \* history: uid, configuration and spawned commands of the first run
  i_env,       \* the caller's environment (environ), a sequence of NAME=value entries
  i_report     \* SpecInvoker: the call made, with its arguments and what it did

rangeVars == <<r_uid_min, r_cfg, r_wrap, r_calls>>

configVars ==
  <<config, pc, src, namelist, fd, names, pos, load_rc, h_before, h_trace, h_parsed, h_attempted, h_read>>

workflowVars == <<w_pc, w_opts, w_uid, w_mode, w_start, w_exit, w_log, w_spawned, w_run, w_prev>>

invokerVars == <<i_env, i_report>>

vars == <<rangeVars, configVars, workflowVars, invokerVars>>

\* main.c main: config_t config = {0}.
ZeroConfig ==
  [ uid_min |-> 0, uid_max |-> 0,
    subuid |-> [min_val |-> 0, max_val |-> 0, count_val |-> 0],
    subgid |-> [min_val |-> 0, max_val |-> 0, count_val |-> 0],
    skip_if_exists |-> FALSE, allow_subid_wrap |-> FALSE ]

\* The range calculator at rest (specifications that do not call it directly).
RangeIdle ==
  /\ r_uid_min = 0
  /\ r_cfg = [min_val |-> 0, max_val |-> 0, count_val |-> 0]
  /\ r_wrap = FALSE
  /\ r_calls = <<>>

\* main before it runs (specifications that do not run the workflow).
WorkflowIdle ==
  /\ w_pc = "resolve_user"
  /\ w_opts = [do_subuid |-> TRUE, do_subgid |-> FALSE, noop |-> FALSE]
  /\ w_uid = 0
  /\ w_mode = "none"
  /\ w_start = 0
  /\ w_exit = "running"
  /\ w_log = <<>>
  /\ w_spawned = <<>>
  /\ w_run = 1
  /\ w_prev = [uid |-> 0, config |-> ZeroConfig, spawned |-> <<>>]

\* The loader before load_configuration is called.
LoaderAtStart ==
  /\ pc = "start"
  /\ src = "none"
  /\ namelist = <<>>
  /\ fd = NoFd
  /\ names = ENOENT
  /\ pos = 1
  /\ load_rc = "running"
  /\ h_before = ZeroConfig
  /\ h_trace = <<>>
  /\ h_parsed = <<>>
  /\ h_attempted = <<>>
  /\ h_read = <<>>

\* The invoker before it is called, under an empty environment.
InvokerIdle == i_env = <<>> /\ i_report = <<>>

\* main's record before load_configuration is called, and the loader at its start.
ConfigIdle == config = ZeroConfig /\ LoaderAtStart

\* -------------------------------------------------------------------------
\* SpecRange: calc_subid_range called for up to two identifiers under one
\* configuration
\* -------------------------------------------------------------------------

\* Every subid_config_t {min_val, max_val, count_val} over the word.
SubidConfigs == [min_val : Uint32, max_val : Uint32, count_val : Uint32]

\* The uid_min arguments drawn: uid_min enters calc_subid_range only through
\* uid < uid_min and uid - uid_min, so zero and one non-zero value cover it.
UidMins == {0, 1}

InitRange ==
  /\ r_uid_min \in UidMins
  /\ r_cfg \in SubidConfigs
  /\ r_wrap \in BOOLEAN
  /\ r_calls = <<>>
  /\ ConfigIdle
  /\ WorkflowIdle
  /\ InvokerIdle

\* Mutant of RangeResult: a start already handed out is moved past the earlier calls.
RangeResultAfterEarlier(earlier, r) ==
  IF r.rc = 0 /\ \E k \in 1..Len(earlier) : earlier[k].rc = 0
  THEN [r EXCEPT !.start_out = ToUint32(r.start_out + Len(earlier))]
  ELSE r

\* What a call returns after the earlier calls: range.c keeps no state between
\* calls (no static, no file, no table of ranges handed out), so the result
\* computed from the arguments is the result.
RangeResult(earlier, r) == r

\* One call of calc_subid_range for identifier uid.
CalcSubidRange(uid) ==
  /\ Len(r_calls) < 2
  /\ LET r == RangeResult(r_calls, calc_subid_range(uid, r_uid_min, r_cfg, r_wrap)) IN
       r_calls' = Append(r_calls, [uid |-> uid, rc |-> r.rc, start_out |-> r.start_out])
  /\ UNCHANGED <<r_uid_min, r_cfg, r_wrap>>
  /\ UNCHANGED <<configVars, workflowVars, invokerVars>>

NextRange == \E uid \in Uint32 : CalcSubidRange(uid)

SpecRange == InitRange /\ [][NextRange]_vars

\* -------------------------------------------------------------------------
\* Claims about calc_subid_range (checked under SpecRange)
\* -------------------------------------------------------------------------

\* Indices of the calls made so far.
Calls == 1..Len(r_calls)

\* The call succeeded.
Succeeded(i) == r_calls[i].rc = 0

\* Exact (unbounded) arithmetic of the base formula for call i.
ExactOffset(i)  == r_calls[i].uid - r_uid_min
ExactProduct(i) == ExactOffset(i) * r_cfg.count_val
ExactStart(i)   == r_cfg.min_val + ExactProduct(i)
ExactEnd(i)     == ExactStart(i) + r_cfg.count_val - 1
ExactSpan       == r_cfg.max_val - r_cfg.min_val + 1

\* The preconditions of calc_subid_range, in exact arithmetic.
Preconditions(i) ==
  /\ r_calls[i].uid >= r_uid_min
  /\ r_cfg.count_val > 0
  /\ r_cfg.count_val <= ExactSpan

\* The block [start, start + count - 1] reported by call i.
Block(i) == r_calls[i].start_out .. (r_calls[i].start_out + r_cfg.count_val - 1)

\* C1: in strict mode, two successful calls for distinct identifiers under one
\* configuration return blocks with no identifier in common.
C1_StrictNonOverlap ==
  \A i \in Calls, j \in Calls :
    (~r_wrap /\ r_calls[i].uid # r_calls[j].uid /\ Succeeded(i) /\ Succeeded(j))
      => Block(i) \cap Block(j) = {}

\* Two distinct identifiers both allocated in strict mode.
C1_Witness ==
  /\ ~r_wrap
  /\ Len(r_calls) = 2
  /\ r_calls[1].uid # r_calls[2].uid
  /\ Succeeded(1) /\ Succeeded(2)
  /\ r_cfg.count_val > 1

\* C2: in strict mode, for id2 > id1 >= uid_min both allocated under one
\* configuration, start(id2) >= start(id1) + count.
C2_StrictMonotonic ==
  \A i \in Calls, j \in Calls :
    (~r_wrap /\ r_calls[j].uid > r_calls[i].uid /\ Succeeded(i) /\ Succeeded(j))
      => r_calls[j].start_out >= r_calls[i].start_out + r_cfg.count_val

\* The larger identifier was allocated first, the smaller second, both in strict mode.
C2_Witness ==
  /\ ~r_wrap
  /\ Len(r_calls) = 2
  /\ r_calls[1].uid > r_calls[2].uid
  /\ r_calls[2].uid > r_uid_min
  /\ Succeeded(1) /\ Succeeded(2)

\* Some step of the base formula exceeds UINT32_MAX_VAL, or the block ends above max_val.
ExactOutOfRange(i) ==
  \/ ExactProduct(i) > UINT32_MAX_VAL
  \/ ExactStart(i) > UINT32_MAX_VAL
  \/ ExactEnd(i) > UINT32_MAX_VAL
  \/ ExactEnd(i) > r_cfg.max_val

\* C3: in strict mode the call fails whenever, in exact arithmetic, the product, the
\* start or the end exceeds UINT32_MAX_VAL, or the end exceeds max_val.
C3_StrictOverflowRejected ==
  \A i \in Calls : (~r_wrap /\ ExactOutOfRange(i)) => r_calls[i].rc = -1

\* A strict call that passed the sanity checks and was rejected although the wrapped
\* 32-bit end would have been at or below max_val: only the overflow check stops it.
C3_Witness ==
  \E i \in Calls :
    /\ ~r_wrap
    /\ Preconditions(i)
    /\ ExactEnd(i) > UINT32_MAX_VAL
    /\ ToUint32(ExactEnd(i)) <= r_cfg.max_val
    /\ ToUint32(ExactStart(i)) <= ToUint32(ExactEnd(i))
    /\ r_calls[i].rc = -1

\* a mod n of the claim, read with the magnitude of n where the span is not positive.
ExactMod(a, n) == IF n > 0 THEN a % n ELSE IF n < 0 THEN a % (0 - n) ELSE a

\* The logical offset L of the claim: the exact product, reduced modulo the exact
\* span in wrap mode.
ExactL(i) == IF r_wrap THEN ExactMod(ExactProduct(i), ExactSpan) ELSE ExactProduct(i)

\* C4: whenever the call succeeds, start = min + L in exact arithmetic.
C4_StartIsExactFormula ==
  \A i \in Calls : Succeeded(i) => r_calls[i].start_out = r_cfg.min_val + ExactL(i)

\* C5: in strict mode, an input meeting the preconditions whose block ends exactly
\* at UINT32_MAX_VAL = max_val, with no intermediate overflow, succeeds with
\* start = min + (id - uid_min) * count.
C5_StrictExactFitAtMaxSucceeds ==
  \A i \in Calls :
    ( /\ ~r_wrap
      /\ Preconditions(i)
      /\ r_cfg.max_val = UINT32_MAX_VAL
      /\ ExactProduct(i) <= UINT32_MAX_VAL
      /\ ExactStart(i) <= UINT32_MAX_VAL
      /\ ExactEnd(i) = UINT32_MAX_VAL )
      => (Succeeded(i) /\ r_calls[i].start_out = ExactStart(i))

\* C6: in wrap mode every successful call returns min <= start <= max.
C6_WrapStartInDomain ==
  \A i \in Calls :
    (r_wrap /\ Succeeded(i))
      => (r_cfg.min_val <= r_calls[i].start_out /\ r_calls[i].start_out <= r_cfg.max_val)

\* C7: in wrap mode every input meeting the preconditions succeeds.
C7_WrapNeverFails ==
  \A i \in Calls : (r_wrap /\ Preconditions(i)) => Succeeded(i)

\* C21: in strict and in wrap mode the call fails whenever id < uid_min, or
\* count = 0, or count > max - min + 1 (exact arithmetic); the inputs are never
\* adjusted to make the request fit.
C21_PreconditionViolationFails ==
  \A i \in Calls : ~Preconditions(i) => r_calls[i].rc = -1

\* C22: whenever the call fails, start_out holds the sentinel UINT32_MAX_VAL and
\* no product or sum computed on the way.
C22_FailureLeavesSentinel ==
  \A i \in Calls : r_calls[i].rc = -1 => r_calls[i].start_out = UINT32_MAX_VAL

\* C22 witness: a strict call computed a start other than the sentinel without
\* overflow, was rejected because its block ends above max_val, and returned
\* the sentinel.
C22_Witness ==
  \E i \in Calls :
    /\ ~r_wrap
    /\ Preconditions(i)
    /\ ExactProduct(i) > 0
    /\ ExactStart(i) < UINT32_MAX_VAL
    /\ ExactEnd(i) <= UINT32_MAX_VAL
    /\ ExactEnd(i) > r_cfg.max_val
    /\ r_calls[i].rc = -1
    /\ r_calls[i].start_out = UINT32_MAX_VAL

C27_WrapBlockInDomain ==
  \A i \in Calls :
    (r_wrap /\ Succeeded(i))
      => /\ r_cfg.min_val <= r_calls[i].start_out
         /\ r_calls[i].start_out + r_cfg.count_val - 1 <= r_cfg.max_val

\* -------------------------------------------------------------------------
\* SpecConfig: load_configuration, one system call per step, while another
\* process re-points the path being processed
\* -------------------------------------------------------------------------

\* What the caller's record may hold when load_configuration is called: main's
\* zeroed record, or the result of an earlier load.
PriorConfigs ==
  { ZeroConfig,
    [ uid_min |-> 3, uid_max |-> 4,
      subuid |-> [min_val |-> 1, max_val |-> 2, count_val |-> 1],
      subgid |-> [min_val |-> 5, max_val |-> 6, count_val |-> 2],
      skip_if_exists |-> FALSE, allow_subid_wrap |-> TRUE ] }

InitConfig == RangeIdle /\ WorkflowIdle /\ InvokerIdle /\ LoaderAtStart /\ config \in PriorConfigs

\* The source load_configuration is at: a file path, the drop-in directory, or
\* the drop-in file of the next name.
Source ==
  [ src |-> src,
    name |-> IF src = "CONFIG_DROPIN_DIR_PATH" /\ pc # "stat" /\ namelist # <<>>
             THEN Head(namelist) ELSE <<>> ]

\* One entry of the system-call history.
Call(op, obj) == [op |-> op, obj |-> obj]

\* Where load_configuration continues once parse_config_file has returned for
\* the current source: the next file, the drop-in directory, or return 0.
SourceDone(rest) ==
  /\ fd' = NoFd
  /\ pos' = 1
  /\ IF src = "LOGIN_DEFS_PATH"
     THEN src' = "CONFIG_FILE_PATH" /\ pc' = "open" /\ namelist' = namelist /\ load_rc' = load_rc
     ELSE IF src = "CONFIG_FILE_PATH"
     THEN src' = "CONFIG_DROPIN_DIR_PATH" /\ pc' = "stat" /\ namelist' = namelist /\ load_rc' = load_rc
     ELSE /\ src' = src
          /\ namelist' = rest
          /\ IF rest = <<>> THEN pc' = "done" /\ load_rc' = 0
                            ELSE pc' = "open" /\ load_rc' = load_rc

\* load_configuration up to its first parse_config_file: config_factory(config).
LoadConfiguration ==
  /\ pc = "start"
  /\ config' = config_factory
  /\ src' = "LOGIN_DEFS_PATH"
  /\ pc' = "open"
  /\ UNCHANGED <<namelist, fd, names, pos, load_rc, h_before, h_trace, h_parsed, h_attempted, h_read>>
  /\ UNCHANGED <<rangeVars, workflowVars, invokerVars>>

\* safe_open_config: ops->open(filepath, O_RDONLY). The path names t at this
\* instant; err is a failure other than ENOENT. A failed open ends the source.
Open(t, err) ==
  /\ pc = "open"
  /\ t = ENOENT => ~err
  /\ names' = t
  /\ h_before' = config
  /\ h_parsed' = <<>>
  /\ h_attempted' = Append(h_attempted, Source)
  /\ IF t = ENOENT \/ err
     THEN /\ h_trace' = <<Call("open", ENOENT)>>
          /\ SourceDone(IF namelist = <<>> THEN <<>> ELSE Tail(namelist))
     ELSE /\ h_trace' = <<Call("open", t)>>
          /\ fd' = t
          /\ pc' = "fstat"
          /\ UNCHANGED <<src, namelist, pos, load_rc>>
  /\ UNCHANGED <<config, h_read>>
  /\ UNCHANGED <<rangeVars, workflowVars, invokerVars>>

\* safe_open_config: ops->fstat(fd, &st) and the tests on st; a failure of fstat
\* or of a test closes fd and ends the source.
Fstat(err) ==
  /\ pc = "fstat"
  /\ LET obj == FstatObject(fd, names)
         st  == [type |-> obj.type, st_uid |-> obj.st_uid, woth |-> obj.woth]
     IN IF err \/ obj = ENOENT \/ ~SecurityGate(st)
        THEN /\ h_trace' = h_trace \o <<Call("fstat", obj), Call("close", fd)>>
             /\ SourceDone(IF namelist = <<>> THEN <<>> ELSE Tail(namelist))
        ELSE /\ h_trace' = Append(h_trace, Call("fstat", obj))
             /\ pc' = "fdopen"
             /\ UNCHANGED <<src, namelist, fd, pos, load_rc>>
  /\ UNCHANGED <<config, names, h_before, h_parsed, h_attempted, h_read>>
  /\ UNCHANGED <<rangeVars, workflowVars, invokerVars>>

\* safe_open_config: ops->fdopen(fd, "r"); on failure fd is closed and the source
\* ends.
Fdopen(err) ==
  /\ pc = "fdopen"
  /\ IF err
     THEN /\ h_trace' = h_trace \o <<Call("fdopen", fd), Call("close", fd)>>
          /\ SourceDone(IF namelist = <<>> THEN <<>> ELSE Tail(namelist))
          /\ h_read' = h_read
     ELSE /\ h_trace' = Append(h_trace, Call("fdopen", fd))
          /\ pc' = "fgets"
          /\ pos' = 1
          /\ h_read' = Append(h_read, [src |-> Source.src, name |-> Source.name, ino |-> fd.ino])
          /\ UNCHANGED <<src, namelist, fd, load_rc>>
  /\ UNCHANGED <<config, names, h_before, h_parsed, h_attempted>>
  /\ UNCHANGED <<rangeVars, workflowVars, invokerVars>>

\* parse_config_file: one turn of while (ops->fgets(...) != NULL) with its body,
\* or the final fgets that returns NULL followed by fclose.
Fgets ==
  /\ pc = "fgets"
  /\ LET obj  == ReadObject(fd, names)
         line == IF obj = ENOENT THEN <<>> ELSE fgets(ReadableContent(obj), pos)
     IN IF line = <<>>
        THEN /\ h_trace' = h_trace \o <<Call("fgets", obj), Call("fclose", fd)>>
             /\ SourceDone(IF namelist = <<>> THEN <<>> ELSE Tail(namelist))
             /\ UNCHANGED <<config, h_parsed>>
        ELSE /\ h_trace' = Append(h_trace, Call("fgets", obj))
             /\ config' = ParseLine(line, config)
             /\ pos' = pos + Len(line)
             /\ h_parsed' = Append(h_parsed, [obj |-> obj, line |-> line])
             /\ UNCHANGED <<pc, src, namelist, fd, load_rc>>
  /\ UNCHANGED <<names, h_before, h_attempted, h_read>>
  /\ UNCHANGED <<rangeVars, workflowVars, invokerVars>>

\* validate_config_dir: ops->stat(dirpath, &st) and the tests on st. The path
\* names t at this instant; err is a failure other than ENOENT. ENOENT and a
\* passing directory let load_config_from_dir go on to scandir; anything else
\* makes load_configuration return -1.
Stat(t, err) ==
  /\ pc = "stat"
  /\ t = ENOENT => ~err
  /\ names' = t
  /\ h_before' = config
  /\ h_parsed' = <<>>
  /\ h_trace' = <<Call("stat", t)>>
  /\ LET st == [type |-> t.type, st_uid |-> t.st_uid, woth |-> t.woth]
     IN IF ~err /\ (t = ENOENT \/ DirGate(st))
        THEN pc' = "scandir" /\ load_rc' = load_rc
        ELSE pc' = "done" /\ load_rc' = -1
  /\ h_attempted' = Append(h_attempted, Source)
  /\ UNCHANGED <<config, src, namelist, fd, pos, h_read>>
  /\ UNCHANGED <<rangeVars, workflowVars, invokerVars>>

\* load_config_from_dir: ops->scandir(dirpath, ...) resolves the path again.
\* ENOENT returns 0, another failure returns -1; otherwise the filtered, sorted
\* names are processed in order, entries failing the per-entry defence skipped.
Scandir(err) ==
  /\ pc = "scandir"
  /\ names = ENOENT => ~err
  /\ h_trace' = Append(h_trace, Call("scandir", names))
  /\ IF names = ENOENT
     THEN pc' = "done" /\ load_rc' = 0 /\ namelist' = <<>>
     ELSE IF err \/ names.type # "DIR"
     THEN pc' = "done" /\ load_rc' = -1 /\ namelist' = <<>>
     ELSE LET found == SelectSeq(scandir(names), EntryAccepted)
          IN /\ namelist' = found
             /\ IF found = <<>> THEN pc' = "done" /\ load_rc' = 0
                                ELSE pc' = "open" /\ load_rc' = load_rc
  /\ UNCHANGED <<config, src, fd, names, pos, h_before, h_parsed, h_attempted, h_read>>
  /\ UNCHANGED <<rangeVars, workflowVars, invokerVars>>

\* Another process re-points the path being processed (rename, symlink swap,
\* unlink) between two system calls of the loader.
Repoint(t) ==
  /\ pc \in {"fstat", "fdopen", "fgets", "scandir"}
  /\ t # names
  /\ names' = t
  /\ UNCHANGED <<config, pc, src, namelist, fd, pos, load_rc, h_before, h_trace, h_parsed, h_attempted, h_read>>
  /\ UNCHANGED <<rangeVars, workflowVars, invokerVars>>

NextConfig ==
  \/ LoadConfiguration
  \/ \E t \in Targets, err \in BOOLEAN : Open(t, err)
  \/ \E err \in BOOLEAN : Fstat(err)
  \/ \E err \in BOOLEAN : Fdopen(err)
  \/ Fgets
  \/ \E t \in Targets, err \in BOOLEAN : Stat(t, err)
  \/ \E err \in BOOLEAN : Scandir(err)
  \/ \E t \in Targets : Repoint(t)

SpecConfig == InitConfig /\ [][NextConfig]_vars

\* -------------------------------------------------------------------------
\* Claims about the configuration loader (checked under SpecConfig)
\* -------------------------------------------------------------------------

\* The object open returned for the current file source, if open succeeded.
Opened == h_trace[1].obj

\* A file source whose open succeeded is being, or was last, processed.
FileOpened == h_trace # <<>> /\ h_trace[1].op = "open" /\ Opened # ENOENT

\* The object is not a regular file, or not owned by uid 0, or writable by others.
FailsGate(obj) == obj.type # "REG" \/ obj.st_uid # 0 \/ obj.woth

\* The ops of the current source's system calls, in order.
Ops == [i \in 1..Len(h_trace) |-> h_trace[i].op]

\* C8: a file that fails the gate (not regular, not owned by uid 0, or writable by
\* others) is never read, no line of it reaches the parser, and every field of
\* the configuration stays as it was when the source was attempted.
C8_GateFailedNeverRead ==
  (FileOpened /\ FailsGate(Opened)) =>
    /\ \A i \in 1..Len(h_trace) : h_trace[i].op # "fgets"
    /\ h_parsed = <<>>
    /\ config = h_before

\* C8 witness: a regular file owned by uid 1000 whose lines would change the
\* configuration was opened, examined and closed.
C8_Witness ==
  /\ FileOpened
  /\ Opened.type = "REG" /\ Opened.st_uid = 1000 /\ ~Opened.woth
  /\ Ops = <<"open", "fstat", "close">>
  /\ ParseLine(fgets(FileContent(Opened.ino), 1), h_before) # h_before

\* C9: for a file source the calls are open, fstat, fdopen, then the reads, each
\* on the object open returned (the path is not resolved again), and every line
\* parsed was read from the object whose fstat result passed the gate, even when
\* the path is re-pointed between any two steps.
C9_HandleBoundChecks ==
  FileOpened =>
    /\ \A i \in 2..Len(h_trace) :
         /\ h_trace[i].op # "open"
         /\ h_trace[i].op = "fstat" => i = 2
         /\ h_trace[i].op = "fdopen" => i = 3 /\ h_trace[2].op = "fstat"
         /\ h_trace[i].op = "fgets" => i >= 4 /\ h_trace[3].op = "fdopen"
                                       /\ h_trace[i - 1].op \in {"fdopen", "fgets"}
         /\ h_trace[i].obj = Opened
    /\ \A k \in 1..Len(h_parsed) :
         /\ Len(h_trace) >= 2 /\ h_trace[2].op = "fstat"
         /\ h_parsed[k].obj = h_trace[2].obj
         /\ ~FailsGate(h_trace[2].obj)

\* C9 witness: after open the path was re-pointed to an object that fails the
\* gate, and a line has been parsed since.
C9_Witness ==
  /\ FileOpened
  /\ pc = "fgets"
  /\ names # Opened /\ names # ENOENT /\ FailsGate(names)
  /\ h_parsed # <<>>
  /\ config # h_before

\* The hardcoded defaults: primary range 1000-60000, both subordinate ranges
\* 100000-600100000 with count 65536, skip_if_exists set, allow_subid_wrap clear.
Defaults ==
  [ uid_min |-> 1000, uid_max |-> 60000,
    subuid |-> [min_val |-> 100000, max_val |-> 600100000, count_val |-> 65536],
    subgid |-> [min_val |-> 100000, max_val |-> 600100000, count_val |-> 65536],
    skip_if_exists |-> TRUE, allow_subid_wrap |-> FALSE ]

\* What the valid lines of a content assign, the last line for a key winning:
\* content 1 sets UID_MIN 2 and SUB_UID_COUNT 3, content 2 sets UID_MIN 4 then 5
\* and SKIP_IF_EXISTS no, content 3 sets SUB_UID_COUNT 0 and UID_MAX 6 (its other
\* lines carry rejected values), content 4 sets UID_MAX 1 (the second buffer of
\* its one line).
Assigned(ino, cfg) ==
  CASE ino = 1 -> [cfg EXCEPT !.uid_min = 2, !.subuid.count_val = 3]
    [] ino = 2 -> [cfg EXCEPT !.uid_min = 5, !.skip_if_exists = FALSE]
    [] ino = 3 -> [cfg EXCEPT !.subuid.count_val = 0, !.uid_max = 6]
    [] ino = 4 -> [cfg EXCEPT !.uid_max = 1]

\* The record after the files read, in the order given, have been applied to cfg.
RECURSIVE Merged(_, _)
Merged(reads, cfg) ==
  IF reads = <<>> THEN cfg ELSE Merged(Tail(reads), Assigned(Head(reads).ino, cfg))

\* Place of a source in the fixed order: login.defs, the main file, then the
\* drop-in files a.conf and b.conf by name.
Priority(r) ==
  CASE r.src = "LOGIN_DEFS_PATH" -> 1
    [] r.src = "CONFIG_FILE_PATH" -> 2
    [] r.name = <<"a", ".", "c", "o", "n", "f">> -> 3
    [] r.name = <<"b", ".", "c", "o", "n", "f">> -> 4
    [] OTHER -> 0

\* C11: after load_configuration every key holds the value of the last accepted
\* assignment, the sources taken in the order login.defs, main file, drop-in files
\* by name (lines in file order), and a key no source assigns holds its hardcoded
\* default, whatever the record held before the call.
C11_LastWriteWins ==
  pc = "done" =>
    /\ \A i, j \in 1..Len(h_read) : i < j => Priority(h_read[i]) < Priority(h_read[j])
    /\ \A i \in 1..Len(h_read) : Priority(h_read[i]) > 0
    /\ config = Merged(h_read, Defaults)

\* C11 witness: login.defs set UID_MIN 2, a.conf then set it to 5 and b.conf back
\* to 2; the load returned 0 with UID_MIN 2 and the untouched keys at their defaults.
C11_Witness ==
  /\ pc = "done" /\ load_rc = 0
  /\ Len(h_read) = 3
  /\ h_read[1].src = "LOGIN_DEFS_PATH" /\ h_read[1].ino = 1
  /\ h_read[2].name = <<"a", ".", "c", "o", "n", "f">> /\ h_read[2].ino = 2
  /\ h_read[3].name = <<"b", ".", "c", "o", "n", "f">> /\ h_read[3].ino = 1
  /\ config.uid_min = 2 /\ config.skip_if_exists = FALSE
  /\ config.subgid = Defaults.subgid

\* C12: whenever load_configuration returns success the record has min <= max
\* for the primary domain and both subordinate domains and count > 0 for both
\* subordinate domains, whatever the sources contain.
C12_LoadedRecordInvariants ==
  (pc = "done" /\ load_rc = 0) =>
    /\ config.uid_min <= config.uid_max
    /\ config.subuid.min_val <= config.subuid.max_val
    /\ config.subgid.min_val <= config.subgid.max_val
    /\ config.subuid.count_val > 0
    /\ config.subgid.count_val > 0

\* The object is not a directory, or not owned by uid 0, or writable by others.
FailsDirGate(obj) == obj.type # "DIR" \/ obj.st_uid # 0 \/ obj.woth

\* The last system call of the current source.
LastCall == h_trace[Len(h_trace)]

\* The names of the drop-in files attempted so far.
AttemptedNames == [i \in 1..(Len(h_attempted) - 3) |-> h_attempted[i + 3].name]

\* The names found by scandir and not attempted yet.
PendingNames ==
  IF namelist = <<>> \/ pc = "open" THEN namelist ELSE Tail(namelist)

\* The lists of names a directory of the model yields.
Listings ==
  {SelectSeq(scandir(d), EntryAccepted) : d \in {o \in FileObjects : o.type = "DIR"}} \cup {<<>>}

\* C19: load_configuration returns -1 when stat finds, at the drop-in path, an
\* object that is not a directory, not owned by uid 0 or writable by others; a
\* return of -1 only ever follows a stat or scandir of the drop-in path that found
\* an object (never a missing directory, never a step of a file source); and
\* whatever happened to the earlier sources (missing, unopenable, gate failed),
\* login.defs, the main file and the drop-in directory are each attempted in this
\* order and every name scandir found is attempted in its order.
C19_OnlyDirectoryFailureIsFatal ==
  /\ (h_trace # <<>> /\ h_trace[1].op = "stat"
      /\ h_trace[1].obj # ENOENT /\ FailsDirGate(h_trace[1].obj))
       => (pc = "done" /\ load_rc = -1)
  /\ (pc = "done" /\ load_rc = -1)
       => /\ LastCall.op \in {"stat", "scandir"}
          /\ LastCall.obj # ENOENT
          /\ h_trace[1].op = "stat"
  /\ Len(h_attempted) >= 1 => h_attempted[1] = [src |-> "LOGIN_DEFS_PATH", name |-> <<>>]
  /\ Len(h_attempted) >= 2 => h_attempted[2] = [src |-> "CONFIG_FILE_PATH", name |-> <<>>]
  /\ Len(h_attempted) >= 3 => h_attempted[3] = [src |-> "CONFIG_DROPIN_DIR_PATH", name |-> <<>>]
  /\ \A i \in 4..Len(h_attempted) : h_attempted[i].src = "CONFIG_DROPIN_DIR_PATH"
  /\ pc = "done" => Len(h_attempted) >= 3
  /\ Len(h_attempted) >= 3 => (AttemptedNames \o PendingNames) \in Listings
  /\ pc = "done" => PendingNames = <<>>

\* C19 witness: login.defs is missing, the main file fails its gate, and the
\* drop-in path names a directory owned by uid 0 but writable by others; the load
\* returned -1 with nothing read.
C19_Witness ==
  /\ pc = "done" /\ load_rc = -1
  /\ h_trace = <<Call("stat", [type |-> "DIR", st_uid |-> 0, woth |-> TRUE, ino |-> 2])>>
  /\ Len(h_attempted) = 3
  /\ h_read = <<>>

\* What the first k lines of content 3 leave of cfg: the lines "UID_MIN -3",
\* "SUB_UID_COUNT 5", "SKIP_IF_EXISTS maybe" and "UID_MAX 16" carry rejected values,
\* then "SUB_UID_COUNT 0" and "UID_MAX 6" are valid.
AfterLines3(k, cfg) ==
  IF k <= 4 THEN cfg
  ELSE IF k = 5 THEN [cfg EXCEPT !.subuid.count_val = 0]
  ELSE [cfg EXCEPT !.subuid.count_val = 0, !.uid_max = 6]

\* C20: a line whose value is rejected (a signed or out-of-range number, a count
\* above MAX_RANGES, an unrecognized boolean word) leaves every field, the
\* targeted one included, as it was, and the valid lines that follow it in the
\* same file are applied.
C20_RejectedLineChangesNothing ==
  (FileOpened /\ Opened.ino = 3) => config = AfterLines3(Len(h_parsed), h_before)

\* C20 witness: content 3 was read to its end over a record whose UID_MIN,
\* SUB_UID_COUNT and SKIP_IF_EXISTS an earlier file had set; these kept their
\* values across the rejected lines and the two valid lines were applied.
C20_Witness ==
  /\ FileOpened /\ Opened.ino = 3
  /\ Len(h_parsed) = 6
  /\ h_before.uid_min = 5 /\ h_before.skip_if_exists = FALSE
  /\ config.uid_min = 5 /\ config.skip_if_exists = FALSE
  /\ config.subuid.count_val = 0 /\ config.uid_max = 6

\* What the lines of a content assign when each line, up to its newline, has its
\* comment cut at the first '#', is trimmed and is split at its first run of
\* white space, from offset p on.
RECURSIVE ParseWholeLines(_, _, _)
ParseWholeLines(content, p, cfg) ==
  IF p > Len(content) THEN cfg
  ELSE LET nl == FirstIn(content, p, {"\n"})
       IN ParseWholeLines(content, nl + 1,
                          ParseLine(SubSeq(content, p, IF nl > Len(content) THEN Len(content) ELSE nl), cfg))

\* C28: once a file has been read to its end, the record is what its lines assign
\* with the text from a '#' to the end of the line left out, whatever the length
\* of the line.
C28_CommentNeverInterpreted ==
  (FileOpened /\ h_trace[Len(h_trace)].op = "fclose")
    => config = ParseWholeLines(FileContent(Opened.ino), 1, h_before)

\* -------------------------------------------------------------------------
\* Spec: one run of main for the options given
\* -------------------------------------------------------------------------

\* parse_arguments: at least one of --subuid and --subgid, with or without --noop.
Options ==
  {o \in [do_subuid : BOOLEAN, do_subgid : BOOLEAN, noop : BOOLEAN] : o.do_subuid \/ o.do_subgid}

\* The subordinate-ID settings drawn: a low and a high interval, an interval
\* ending at the word's maximum, one with max_val below min_val (the loader
\* does not compare them), and the single identifier UINT32_MAX_VAL.
SubidSamples ==
  { [min_val |-> 2, max_val |-> 3, count_val |-> 1],
    [min_val |-> UINT32_MAX_VAL, max_val |-> UINT32_MAX_VAL, count_val |-> 1],
    [min_val |-> UINT32_MAX_VAL - 3, max_val |-> UINT32_MAX_VAL, count_val |-> 2],
    [min_val |-> 4, max_val |-> UINT32_MAX_VAL - 2, count_val |-> 1],
    [min_val |-> 3, max_val |-> 2, count_val |-> 1] }

\* The records load_configuration may leave in config: any value of the word is
\* accepted for each bound.
LoadedConfigs ==
  [ uid_min : {0, 1}, uid_max : {UINT32_MAX_VAL - 1, UINT32_MAX_VAL},
    subuid : SubidSamples, subgid : SubidSamples,
    skip_if_exists : BOOLEAN, allow_subid_wrap : BOOLEAN ]

Init ==
  /\ RangeIdle
  /\ ConfigIdle
  /\ InvokerIdle
  /\ w_pc = "resolve_user"
  /\ w_opts \in Options
  /\ w_uid = 0
  /\ w_mode = "none"
  /\ w_start = 0
  /\ w_exit = "running"
  /\ w_log = <<>>
  /\ w_spawned = <<>>
  /\ w_run = 1
  /\ w_prev = [uid |-> 0, config |-> ZeroConfig, spawned |-> <<>>]

\* One entry of the step history.
Step(step, mode, rc) == [step |-> step, mode |-> mode, rc |-> rc]

\* exit(status).
Exit(status) == w_pc' = "exit" /\ w_exit' = status

\* main after validate_uid_range or after a process_mode that returned 0: the
\* next requested mode, or exit(EXIT_SUCCESS).
Proceed(done) ==
  IF done = "none" /\ w_opts.do_subuid
  THEN w_mode' = "subuid" /\ w_pc' = "overlap" /\ w_exit' = w_exit
  ELSE IF done # "subgid" /\ w_opts.do_subgid
  THEN w_mode' = "subgid" /\ w_pc' = "overlap" /\ w_exit' = w_exit
  ELSE w_mode' = w_mode /\ Exit("EXIT_SUCCESS")

\* The subid_config_t process_mode selects for its mode.
SubidCfg(mode) == IF mode = "subuid" THEN config.subuid ELSE config.subgid

\* main: resolve_user stores the uid of the user argument, or fails.
ResolveUser ==
  /\ w_pc = "resolve_user"
  /\ \E u \in Uint32, ok \in BOOLEAN :
       /\ w_run = 2 /\ ok => u = w_prev.uid
       /\ w_log' = Append(w_log, Step("resolve_user", "none", IF ok THEN 0 ELSE -1))
       /\ IF ok THEN w_uid' = u /\ w_pc' = "load_configuration" /\ w_exit' = w_exit
                ELSE w_uid' = w_uid /\ Exit("EXIT_FAILURE")
  /\ UNCHANGED <<w_opts, w_mode, w_start, w_spawned, w_run, w_prev>>
  /\ UNCHANGED <<rangeVars, configVars, invokerVars>>

\* main: load_configuration leaves the merged record c in config, or fails.
MainLoadConfiguration ==
  /\ w_pc = "load_configuration"
  /\ \E c \in (IF w_run = 2 THEN {w_prev.config} ELSE LoadedConfigs), ok \in BOOLEAN :
       /\ w_log' = Append(w_log, Step("load_configuration", "none", IF ok THEN 0 ELSE -1))
       /\ config' = c
       /\ load_rc' = IF ok THEN 0 ELSE -1
       /\ IF ok THEN w_pc' = "validate_uid_range" /\ w_exit' = w_exit
                ELSE Exit("EXIT_FAILURE")
  /\ UNCHANGED <<w_opts, w_uid, w_mode, w_start, w_spawned, w_run, w_prev>>
  /\ UNCHANGED <<pc, src, namelist, fd, names, pos, h_before, h_trace, h_parsed, h_attempted, h_read>>
  /\ UNCHANGED <<rangeVars, invokerVars>>

\* main: validate_uid_range(uid, &config), then the first requested mode.
ValidateUidRange ==
  /\ w_pc = "validate_uid_range"
  /\ LET rc == validate_uid_range(w_uid, config) IN
       /\ w_log' = Append(w_log, Step("validate_uid_range", "none", rc))
       /\ IF rc # 0 THEN w_mode' = w_mode /\ Exit("EXIT_FAILURE")
                    ELSE Proceed("none")
  /\ UNCHANGED <<w_opts, w_uid, w_start, w_spawned, w_run, w_prev>>
  /\ UNCHANGED <<rangeVars, configVars, invokerVars>>

\* Mutant of CheckRequired: the existence check is never made.
CheckNeverRequired(cfg) == FALSE

\* process_mode: if (config->skip_if_exists).
CheckRequired(cfg) == cfg.skip_if_exists

\* process_mode: validate_uid_subid_overlap(uid, subid_cfg) for the domain of the
\* mode being processed.
ValidateOverlap ==
  /\ w_pc = "overlap"
  /\ LET rc == validate_uid_subid_overlap(w_uid, SubidCfg(w_mode)) IN
       /\ w_log' = Append(w_log, Step("validate_uid_subid_overlap", w_mode, rc))
       /\ IF rc # 0 THEN Exit("EXIT_FAILURE")
          ELSE w_exit' = w_exit /\ w_pc' = IF CheckRequired(config) THEN "exists" ELSE "calc"
  /\ UNCHANGED <<w_opts, w_uid, w_mode, w_start, w_spawned, w_run, w_prev>>
  /\ UNCHANGED <<rangeVars, configVars, invokerVars>>

\* Mutant of AlreadyAssigned: existing ranges are not taken into account.
AlreadyAssignedIgnored(exists) == FALSE

\* process_mode: else if (exists > 0) return 0.
AlreadyAssigned(exists) == exists > 0

\* process_mode: check_subid_exists when skip_if_exists is set; an error fails
\* the run, existing ranges end the mode with success.
CheckSubidExists ==
  /\ w_pc = "exists"
  /\ \E outcome \in Outcomes :
       LET r == check_subid_exists(w_mode, FALSE, i_env, outcome) IN
         /\ w_log' = Append(w_log, Step("check_subid_exists", w_mode, r.rc))
         /\ w_spawned' = w_spawned \o r.spawned
         /\ IF r.rc < 0 THEN w_mode' = w_mode /\ Exit("EXIT_FAILURE")
            ELSE IF AlreadyAssigned(r.rc) THEN Proceed(w_mode)
            ELSE w_mode' = w_mode /\ w_pc' = "calc" /\ w_exit' = w_exit
  /\ UNCHANGED <<w_opts, w_uid, w_start, w_run, w_prev>>
  /\ UNCHANGED <<rangeVars, configVars, invokerVars>>

\* process_mode: calc_subid_range(uid, config->uid_min, subid_cfg,
\* config->allow_subid_wrap, &start).
CalcRange ==
  /\ w_pc = "calc"
  /\ LET r == calc_subid_range(w_uid, config.uid_min, SubidCfg(w_mode), config.allow_subid_wrap) IN
       /\ w_log' = Append(w_log, Step("calc_subid_range", w_mode, r.rc))
       /\ w_start' = r.start_out
       /\ IF r.rc # 0 THEN Exit("EXIT_FAILURE")
                      ELSE w_pc' = "set" /\ w_exit' = w_exit
  /\ UNCHANGED <<w_opts, w_uid, w_mode, w_spawned, w_run, w_prev>>
  /\ UNCHANGED <<rangeVars, configVars, invokerVars>>

\* process_mode: set_subid_range(..., start, subid_cfg->count_val, opts->noop, ...);
\* on success main goes on to the next requested mode.
SetSubidRange ==
  /\ w_pc = "set"
  /\ \E outcome \in Outcomes :
       LET r == set_subid_range(w_mode, w_start, SubidCfg(w_mode).count_val, w_opts.noop, i_env, outcome) IN
         /\ w_log' = Append(w_log, Step("set_subid_range", w_mode, r.rc))
         /\ w_spawned' = w_spawned \o r.spawned
         /\ IF r.rc # 0 THEN w_mode' = w_mode /\ Exit("EXIT_FAILURE")
                        ELSE Proceed(w_mode)
  /\ UNCHANGED <<w_opts, w_uid, w_start, w_run, w_prev>>
  /\ UNCHANGED <<rangeVars, configVars, invokerVars>>

\* The program is run again for the same user under the same configuration after
\* a run that exited with success and spawned the mutation command.
Rerun ==
  /\ w_pc = "exit"
  /\ w_run = 1
  /\ w_exit = "EXIT_SUCCESS"
  /\ \E i \in 1..Len(w_spawned) : w_spawned[i].cmd = "usermod"
  /\ w_run' = 2
  /\ w_prev' = [uid |-> w_uid, config |-> config, spawned |-> w_spawned]
  /\ w_pc' = "resolve_user"
  /\ w_uid' = 0
  /\ w_mode' = "none"
  /\ w_start' = 0
  /\ w_exit' = "running"
  /\ w_log' = <<>>
  /\ w_spawned' = <<>>
  /\ config' = ZeroConfig
  /\ load_rc' = "running"
  /\ UNCHANGED w_opts
  /\ UNCHANGED <<pc, src, namelist, fd, names, pos, h_before, h_trace, h_parsed, h_attempted, h_read>>
  /\ UNCHANGED <<rangeVars, invokerVars>>

Next ==
  \/ ResolveUser
  \/ MainLoadConfiguration
  \/ ValidateUidRange
  \/ ValidateOverlap
  \/ CheckSubidExists
  \/ CalcRange
  \/ SetSubidRange
  \/ Rerun

Spec == Init /\ [][Next]_vars

\* -------------------------------------------------------------------------
\* Claims about the workflow (checked under Spec)
\* -------------------------------------------------------------------------

\* uid lies in the interval [min_val, max_val] of a subordinate-ID domain.
InDomain(uid, subid_cfg) == subid_cfg.min_val <= uid /\ uid <= subid_cfg.max_val

\* C10: no mutation command (usermod) is spawned for a primary identifier that
\* lies inside the interval [min, max] of either subordinate-ID domain, the
\* user-side or the group-side, whichever of --subuid / --subgid is requested.
C10_NoMutationInsideEitherDomain ==
  (\E i \in 1..Len(w_spawned) : w_spawned[i].cmd = "usermod") =>
    ~InDomain(w_uid, config.subuid) /\ ~InDomain(w_uid, config.subgid)

\* The mutation commands among the commands given, for one mode.
Mutations(spawned, mode) ==
  {i \in 1..Len(spawned) : spawned[i].cmd = "usermod" /\ spawned[i].mode = mode}

\* The modes requested by the options.
Requested == {m \in {"subuid", "subgid"} : IF m = "subuid" THEN w_opts.do_subuid ELSE w_opts.do_subgid}

\* The existence check of this run reported that ranges exist for the mode.
ReportedExisting(mode) ==
  \E i \in 1..Len(w_log) :
    w_log[i].step = "check_subid_exists" /\ w_log[i].mode = mode /\ w_log[i].rc = 1

\* C13: in a run repeated for the same user and configuration after a run that
\* assigned the range, a mode whose existence check reports existing ranges (under
\* skip_if_exists) gets no mutation command, the run succeeds when that holds for
\* every requested mode, and any mutation command that is spawned carries the
\* same range as the one of the first run.
C13_RerunAddsNoRange ==
  w_run = 2 =>
    /\ \A m \in Requested : ReportedExisting(m) => Mutations(w_spawned, m) = {}
    /\ (w_pc = "exit" /\ \A m \in Requested : ReportedExisting(m)) => w_exit = "EXIT_SUCCESS"
    /\ \A m \in Requested : \A i \in Mutations(w_spawned, m) : \A j \in Mutations(w_prev.spawned, m) :
         w_spawned[i].range = w_prev.spawned[j].range

\* C13 witness: the repeated run has ended; for subuid the existence check
\* reported existing ranges and nothing was spawned, for subgid it reported none
\* and the mutation command of the first run was spawned again.
C13_Witness ==
  /\ w_run = 2 /\ w_pc = "exit"
  /\ config.skip_if_exists
  /\ ReportedExisting("subuid") /\ Mutations(w_spawned, "subuid") = {}
  /\ Mutations(w_prev.spawned, "subuid") # {}
  /\ Mutations(w_spawned, "subgid") # {} /\ Mutations(w_prev.spawned, "subgid") # {}

\* -------------------------------------------------------------------------
\* SpecInvoker: one call of check_subid_exists or set_subid_range with drawn
\* arguments, under a drawn environment
\* -------------------------------------------------------------------------

\* The entries a caller's environment is drawn from, in their order in environ.
EnvPool ==
  << <<"LD_PRELOAD", "=", "/tmp/evil.so">>,
     <<"TZ", "=", "UTC">>,
     <<"LANG", "UAGE", "=", "en">>,
     <<"LANG", "=", "C">>,
     <<"LANG", "=", "fr">> >>

\* The subsequence of EnvPool with the indices in keep.
RECURSIVE EnvOf(_, _)
EnvOf(keep, i) ==
  IF i > Len(EnvPool) THEN <<>>
  ELSE (IF i \in keep THEN <<EnvPool[i]>> ELSE <<>>) \o EnvOf(keep, i + 1)

\* The environments drawn: every selection of entries of EnvPool.
Environments == {EnvOf(keep, 1) : keep \in SUBSET (1..Len(EnvPool))}

InitInvoker ==
  /\ RangeIdle
  /\ ConfigIdle
  /\ WorkflowIdle
  /\ i_env \in Environments
  /\ i_report = <<>>

\* The modes of subid_mode_t.
Modes == {"subuid", "subgid"}

\* A caller calls check_subid_exists(ops, username, mode, debug).
InvokeCheckSubidExists ==
  /\ i_report = <<>>
  /\ \E mode \in Modes, debug \in BOOLEAN, outcome \in Outcomes :
       i_report' = << [ fn |-> "check_subid_exists", mode |-> mode, start |-> 0, count |-> 0,
                        noop |-> FALSE, debug |-> debug, outcome |-> outcome,
                        did |-> check_subid_exists(mode, debug, i_env, outcome) ] >>
  /\ UNCHANGED i_env
  /\ UNCHANGED <<rangeVars, configVars, workflowVars>>

\* A caller calls set_subid_range(ops, username, mode, start, count, noop, debug).
InvokeSetSubidRange ==
  /\ i_report = <<>>
  /\ \E mode \in Modes, start \in Uint32, count \in Uint32, noop \in BOOLEAN, outcome \in Outcomes :
       i_report' = << [ fn |-> "set_subid_range", mode |-> mode, start |-> start, count |-> count,
                        noop |-> noop, debug |-> FALSE, outcome |-> outcome,
                        did |-> set_subid_range(mode, start, count, noop, i_env, outcome) ] >>
  /\ UNCHANGED i_env
  /\ UNCHANGED <<rangeVars, configVars, workflowVars>>

NextInvoker == InvokeCheckSubidExists \/ InvokeSetSubidRange

SpecInvoker == InitInvoker /\ [][NextInvoker]_vars

\* -------------------------------------------------------------------------
\* Claims about the privileged-operation invoker (checked under SpecInvoker)
\* -------------------------------------------------------------------------

\* The call made, once made.
Called == i_report # <<>>

\* The call made was of the function fn.
CalledFn(fn) == Called /\ i_report[1].fn = fn

\* The names allowed to pass to a spawned command.
AllowList == {<<"LANG">>, <<"LC_ALL">>, <<"LC_MESSAGES">>, <<"LC_CTYPE">>, <<"TZ">>}

\* The name of an environment entry: what precedes its first '='.
NameOf(entry) == SubSeq(entry, 1, FirstIn(entry, 1, {"="}) - 1)

\* The entries of a sequence, as a set.
Entries(env) == {env[k] : k \in 1..Len(env)}

\* The indices of the entries of env that set the variable name.
Setting(env, name) == {k \in 1..Len(env) : NameOf(env[k]) = name}

\* C14: the environment of every spawned command (getsubids and usermod) holds
\* only entries of the caller's environment whose name is LANG, LC_ALL,
\* LC_MESSAGES, LC_CTYPE or TZ, and every such variable that is set is passed,
\* once, with the entry that sets it (the first, should the caller's environment
\* repeat the name); nothing else (LD_PRELOAD, LANGUAGE, ...) is passed, whatever
\* the caller's environment holds.
C14_EnvironmentAllowList ==
  Called =>
    \A c \in 1..Len(i_report[1].did.spawned) :
      LET env == i_report[1].did.spawned[c].env IN
        /\ \A e \in Entries(env) : NameOf(e) \in AllowList /\ e \in Entries(i_env)
        /\ \A n \in AllowList :
             Setting(i_env, n) # {} =>
               /\ Cardinality(Setting(env, n)) = 1
               /\ \E k \in Setting(i_env, n) :
                    /\ \A j \in Setting(i_env, n) : k <= j
                    /\ \A m \in Setting(env, n) : env[m] = i_env[k]

\* C14 witness: a command was spawned by a caller whose environment holds
\* LD_PRELOAD, TZ, LANGUAGE and LANG twice; LANG and TZ were passed.
C14_Witness ==
  /\ Called
  /\ i_report[1].did.spawned # <<>>
  /\ Len(i_env) = 5
  /\ Len(i_report[1].did.spawned[1].env) = 2

\* C15: check_subid_exists returns 1 exactly for a normal exit with code 0, 0
\* exactly for a normal exit with code 1, and -1 for every other exit code,
\* abnormal termination, spawn failure and wait failure, whatever its arguments.
C15_ExistsByExitStatus ==
  CalledFn("check_subid_exists") =>
    LET r == i_report[1] IN
      /\ r.did.rc = 1 <=> r.outcome = "exit0"
      /\ r.did.rc = 0 <=> r.outcome = "exit1"
      /\ r.outcome \notin {"exit0", "exit1"} <=> r.did.rc = -1

\* C15 witness: getsubids exited with code 2 and the call returned -1.
C15_Witness ==
  /\ CalledFn("check_subid_exists")
  /\ i_report[1].outcome = "exit2"
  /\ i_report[1].did.rc = -1
  /\ i_report[1].did.spawned # <<>>

\* usermod was spawned and waited for by the call made.
SpawnedAndWaited ==
  /\ i_report[1].did.spawned # <<>>
  /\ \E k \in 1..Len(i_report[1].did.calls) : i_report[1].did.calls[k] = "waitpid"
  /\ i_report[1].outcome # "wait_failed"

\* C16: with noop false set_subid_range returns 0 if and only if usermod was
\* spawned, waited for and exited normally with code 0.
C16_MutationSuccessIffExitZero ==
  (CalledFn("set_subid_range") /\ ~i_report[1].noop) =>
    (i_report[1].did.rc = 0 <=> (SpawnedAndWaited /\ i_report[1].outcome = "exit0"))

\* C16 witness: usermod was spawned and killed by a signal; the call returned -1.
C16_Witness ==
  /\ CalledFn("set_subid_range") /\ ~i_report[1].noop
  /\ i_report[1].outcome = "signaled"
  /\ SpawnedAndWaited
  /\ i_report[1].did.rc = -1

\* The value of a decimal digit character.
DigitValue(c) == CHOOSE d \in 0..9 : DigitChar(d) = c

\* The number a string of decimal digits denotes.
RECURSIVE NumeralValue(_)
NumeralValue(s) ==
  IF s = <<>> THEN 0 ELSE NumeralValue(SubSeq(s, 1, Len(s) - 1)) * 10 + DigitValue(s[Len(s)])

\* s is the decimal numeral of n: digits only, no leading zero, value n.
IsNumeralOf(s, n) ==
  /\ s # <<>>
  /\ \A k \in 1..Len(s) : \E d \in 0..9 : s[k] = DigitChar(d)
  /\ Len(s) > 1 => s[1] # "0"
  /\ NumeralValue(s) = n

\* str is "first-last": the numeral of first, one '-', the numeral of last.
IsRangeOf(str, first, last) ==
  \E k \in 1..Len(str) :
    /\ str[k] = "-"
    /\ IsNumeralOf(SubSeq(str, 1, k - 1), first)
    /\ IsNumeralOf(SubSeq(str, k + 1, Len(str)), last)

\* The call made spawned or printed a command.
Emitted == i_report[1].did.spawned # <<>> \/ i_report[1].did.printed # <<>>

\* C17: set_subid_range spawns or prints a command only if count > 0 and
\* start + count - 1 <= 2^32 - 1 in exact arithmetic, the range argument it then
\* passes (and prints) is the decimal string "start-end" with end =
\* start + count - 1, never a wrapped end, and the case start + count - 1 =
\* 2^32 - 1 is accepted: it is printed with noop and spawned when the spawn succeeds.
C17_RangeCheckedAndFormatted ==
  CalledFn("set_subid_range") =>
    LET r       == i_report[1]
        last_id == r.start + r.count - 1
    IN /\ Emitted =>
            /\ r.count > 0
            /\ last_id <= UINT32_MAX_VAL
            /\ \A c \in 1..Len(r.did.spawned) :
                 /\ IsRangeOf(r.did.spawned[c].range, r.start, last_id)
                 /\ r.did.spawned[c].argv[3] = r.did.spawned[c].range
            /\ \A p \in 1..Len(r.did.printed) : IsRangeOf(r.did.printed[p][3], r.start, last_id)
       /\ (r.count > 0 /\ last_id = UINT32_MAX_VAL /\ (r.noop \/ SpawnSucceeded(r.outcome)))
            => Emitted

\* C17 witness: usermod was spawned for a range that ends exactly at 2^32 - 1.
C17_Witness ==
  /\ CalledFn("set_subid_range") /\ ~i_report[1].noop
  /\ i_report[1].start > 0 /\ i_report[1].count > 1
  /\ i_report[1].start + i_report[1].count - 1 = UINT32_MAX_VAL
  /\ i_report[1].did.spawned # <<>>

\* C18: with noop true, count > 0 and a range that fits, set_subid_range prints
\* one command line holding the executable path, the flag of the domain, the
\* range string and the username, returns 0, and makes no file-action, spawn or
\* wait call.
C18_NoopPrintsWithoutSpawning ==
  (/\ CalledFn("set_subid_range") /\ i_report[1].noop
   /\ i_report[1].count > 0
   /\ i_report[1].start + i_report[1].count - 1 <= UINT32_MAX_VAL) =>
    LET r == i_report[1] IN
      /\ r.did.rc = 0
      /\ r.did.calls = <<>>
      /\ r.did.spawned = <<>>
      /\ Len(r.did.printed) = 1
      /\ Len(r.did.printed[1]) = 4
      /\ r.did.printed[1][1] = "USERMOD_PATH"
      /\ r.did.printed[1][2] = (IF r.mode = "subuid" THEN "--add-subuids" ELSE "--add-subgids")
      /\ IsRangeOf(r.did.printed[1][3], r.start, r.start + r.count - 1)
      /\ r.did.printed[1][4] = "username"

\* C18 witness: a noop call for subordinate GIDs printed its command while the
\* spawn would have failed.
C18_Witness ==
  /\ CalledFn("set_subid_range") /\ i_report[1].noop
  /\ i_report[1].mode = "subgid"
  /\ i_report[1].outcome = "spawn_failed"
  /\ i_report[1].did.printed # <<>>
  /\ i_report[1].did.rc = 0

\* The file actions of spawned command c of the call made, as a set.
ActionsOf(c) ==
  {i_report[1].did.spawned[c].actions[k] : k \in 1..Len(i_report[1].did.spawned[c].actions)}

\* C24: every spawned child has stdin opened from /dev/null; getsubids has stdout
\* and stderr opened to /dev/null exactly when debug is off; usermod never has
\* stdout or stderr redirected; nothing else is redirected.
C24_ChildRedirections ==
  Called =>
    \A c \in 1..Len(i_report[1].did.spawned) :
      /\ [fd |-> "STDIN_FILENO", path |-> "/dev/null", oflag |-> "O_RDONLY"] \in ActionsOf(c)
      /\ \A a \in ActionsOf(c) :
           /\ a.path = "/dev/null"
           /\ a.fd \in {"STDIN_FILENO", "STDOUT_FILENO", "STDERR_FILENO"}
           /\ a.fd # "STDIN_FILENO" => a.oflag = "O_WRONLY"
      /\ \A out \in {"STDOUT_FILENO", "STDERR_FILENO"} :
           (\E a \in ActionsOf(c) : a.fd = out)
             <=> (i_report[1].fn = "check_subid_exists" /\ ~i_report[1].debug)

\* C24 witness: getsubids was spawned with debug on, with stdin as its only
\* redirection.
C24_Witness ==
  /\ CalledFn("check_subid_exists") /\ i_report[1].debug
  /\ i_report[1].did.spawned # <<>>
  /\ Len(i_report[1].did.spawned[1].actions) = 1

\* The positions of the library call name in the calls of the call made.
CallsOf(name) ==
  {k \in 1..Len(i_report[1].did.calls) : i_report[1].did.calls[k] = name}

\* C25: an invoker operation spawns at most one child, and when posix_spawn
\* succeeded it calls waitpid once, after the spawn and for the pid posix_spawn
\* stored, before it returns, whatever the child's fate; without a spawned child
\* it waits for nothing.
C25_SpawnThenWaitOnce ==
  Called =>
    LET d == i_report[1].did IN
      /\ Cardinality(CallsOf("posix_spawn")) <= 1
      /\ Len(d.spawned) <= 1
      /\ d.spawned # <<>> =>
           /\ Cardinality(CallsOf("posix_spawn")) = 1
           /\ Cardinality(CallsOf("waitpid")) = 1
           /\ \A sp \in CallsOf("posix_spawn"), w \in CallsOf("waitpid") : sp < w
           /\ d.waited = <<d.spawned[1].pid>>
      /\ d.spawned = <<>> => (CallsOf("waitpid") = {} /\ d.waited = <<>>)

\* C25 witness: getsubids was spawned, the wait for it was made and failed, and
\* the call returned -1.
C25_Witness ==
  /\ CalledFn("check_subid_exists")
  /\ i_report[1].outcome = "wait_failed"
  /\ i_report[1].did.spawned # <<>>
  /\ i_report[1].did.waited = <<"pid">>
  /\ i_report[1].did.rc = -1

\* -------------------------------------------------------------------------
\* Claims about the order of the workflow's steps (checked under Spec)
\* -------------------------------------------------------------------------

\* The positions in this run's history of a step for a mode ("none" for the
\* steps of main).
StepsAt(step, mode) ==
  {i \in 1..Len(w_log) : w_log[i].step = step /\ w_log[i].mode = mode}

\* Every position of A lies before every position of B.
Before(A, B) == \A i \in A, j \in B : i < j

\* The step was made for the mode before position j and returned rc.
ReturnedBefore(step, mode, rc, j) ==
  \E i \in StepsAt(step, mode) : i < j /\ w_log[i].rc = rc

\* C26 as stated: the load, then the validation, then calc_subid_range, then the
\* existence check, and set_subid_range only after a check that reported the
\* ranges absent.
C26_ClaimedOrder ==
  \A m \in Modes :
    /\ Before(StepsAt("load_configuration", "none"), StepsAt("validate_uid_range", "none"))
    /\ Before(StepsAt("validate_uid_range", "none"), StepsAt("calc_subid_range", m))
    /\ Before(StepsAt("calc_subid_range", m), StepsAt("check_subid_exists", m))
    /\ \A j \in StepsAt("set_subid_range", m) : ReturnedBefore("check_subid_exists", m, 0, j)

\* C26 (amended): for each requested domain the load completes, the identifier
\* is validated (validate_uid_range, then the overlap check of the domain), the
\* existence check is made exactly when skip_if_exists is set and before the
\* range is computed, the range is computed, and set_subid_range is called after
\* the computation and, when skip_if_exists is set, only after the check
\* reported the ranges absent.
C26_StepOrder ==
  \A m \in Modes :
    /\ Before(StepsAt("load_configuration", "none"), StepsAt("validate_uid_range", "none"))
    /\ Before(StepsAt("validate_uid_range", "none"), StepsAt("validate_uid_subid_overlap", m))
    /\ Before(StepsAt("validate_uid_subid_overlap", m), StepsAt("check_subid_exists", m))
    /\ Before(StepsAt("validate_uid_subid_overlap", m), StepsAt("calc_subid_range", m))
    /\ Before(StepsAt("check_subid_exists", m), StepsAt("calc_subid_range", m))
    /\ Before(StepsAt("calc_subid_range", m), StepsAt("set_subid_range", m))
    /\ StepsAt("calc_subid_range", m) # {} =>
         (StepsAt("check_subid_exists", m) # {} <=> config.skip_if_exists)
    /\ \A j \in StepsAt("set_subid_range", m) :
         /\ ReturnedBefore("calc_subid_range", m, 0, j)
         /\ config.skip_if_exists => ReturnedBefore("check_subid_exists", m, 0, j)
         /\ ~config.skip_if_exists => StepsAt("check_subid_exists", m) = {}

\* C26 witness: with skip_if_exists set both domains were checked, found without
\* ranges, computed and assigned.
C26_Witness ==
  /\ config.skip_if_exists
  /\ w_pc = "exit" /\ w_exit = "EXIT_SUCCESS"
  /\ \A m \in Modes :
       \E i \in StepsAt("check_subid_exists", m), j \in StepsAt("calc_subid_range", m),
          k \in StepsAt("set_subid_range", m) :
         i < j /\ j < k /\ w_log[i].rc = 0 /\ w_log[k].rc = 0

C30_FailureMeansNoMutation ==
  (w_pc = "exit" /\ w_exit = "EXIT_FAILURE" /\ w_opts.do_subuid /\ w_opts.do_subgid)
    => \A k \in 1..Len(w_spawned) : w_spawned[k].cmd # "usermod"

====
